---- MODULE Spec2Model ----
(***************************************************************************)
(* StartOffseter: a model of src/StartOffseter.py.                         *)
(*                                                                         *)
(* Text is modelled as a sequence of one-character strings, floating-point *)
(* values as records (a finite rational n/d, nan, inf or -inf), and a file *)
(* as a sequence of bytes.  External programs and libraries (ffprobe,      *)
(* ffmpeg, librosa, scipy) are nondeterministic choices over their results.*)
(***************************************************************************)
EXTENDS Integers, Sequences, FiniteSets, TLC

VARIABLES
    \* ---- the form (module-level widgets, shared by every worker thread)
    bpm_option,        \* tk.StringVar: "manual" or "auto"
    bpm_entry,         \* text of the BPM entry
    beats_entry,       \* text of the beats entry
    rename_file_var,   \* tk.BooleanVar
    fix_wav_hex_var,   \* tk.BooleanVar
    \* ---- file-processing requests (one worker thread each)
    pending,           \* the "Open File" clicks the user has yet to make
    pc,                \* position of each worker thread
    bpm_text,          \* parse_bpm_entry, called by process_file_thread: the text read
    bpm_value,         \* process_file_thread: the tempo resolved for the request
    output_file_path,  \* the BPM component of the generated file name
    sample_rate,       \* process_file: probed sample rate (stripped text)
    channels,          \* process_file: probed channel count (stripped text)
    pf_bpm_text,       \* parse_bpm_entry, called by process_file: the text read
    pf_bpm_value,      \* process_file: bpm_value, parsed again from bpm_entry
    number_of_beats,   \* process_file: the beat count used
    silence_duration,  \* process_file: the silence duration computed and logged
    command,           \* the ffmpeg arguments of the request, when invoked
    transcoded,        \* ffmpeg ran and exited 0 in this request
    hex_applied,       \* fix_wav_hex was called on the output path
    log,               \* the messages each request reported
    disk,              \* the file at each request's output path
    \* ---- fix_wav_hex applied to an arbitrary file
    hx_before, hx_after, hx_done,
    \* ---- calculate_bpm_robust / prepare_audio applied to arbitrary inputs
    au_load, au_lfilter, au_onset, au_track, au_prepared, au_tempo

vars == <<bpm_option, bpm_entry, beats_entry, rename_file_var, fix_wav_hex_var,
          pending, pc, bpm_text, bpm_value, output_file_path, sample_rate,
          channels, pf_bpm_text, pf_bpm_value, number_of_beats, silence_duration, command, transcoded, hex_applied,
          log, disk, hx_before, hx_after, hx_done,
          au_load, au_lfilter, au_onset, au_track, au_prepared, au_tempo>>

formVars == <<bpm_option, beats_entry, rename_file_var, fix_wav_hex_var>>
hxVars   == <<hx_before, hx_after, hx_done>>
auVars   == <<au_load, au_lfilter, au_onset, au_track, au_prepared, au_tempo>>
reqVars  == <<bpm_entry, pending, pc, bpm_text, bpm_value, output_file_path,
              sample_rate, channels, pf_bpm_text, pf_bpm_value, number_of_beats, silence_duration, command,
              transcoded,
              hex_applied, log, disk>>

----------------------------------------------------------------------------
(* Bounds *)

MaxRequests  == 2    \* worker threads that may be in flight together
MaxBeatsLen  == 3    \* longest generated beats text
MaxFileLen   == 24   \* longest file handed to fix_wav_hex
MaxBufLen    == 2    \* longest audio buffer handed to prepare_audio

Threads == 1..MaxRequests

----------------------------------------------------------------------------
(* Floating-point values *)

Fin(n, d) == [k |-> "fin", n |-> n, d |-> d]      \* the rational n/d, d > 0
NaN       == [k |-> "nan", n |-> 0, d |-> 1]
PosInf    == [k |-> "inf", n |-> 1, d |-> 1]
NegInf    == [k |-> "inf", n |-> -1, d |-> 1]
NoValue   == [k |-> "none", n |-> 0, d |-> 1]     \* None / not yet assigned
ValueError == [k |-> "ValueError", n |-> 0, d |-> 1]

Sign(x) == IF x > 0 THEN 1 ELSE IF x < 0 THEN -1 ELSE 0
Abs(x)  == IF x < 0 THEN -x ELSE x

\* x > 0 and x <= 0 as Python evaluates them (both are False for nan)
FGtZero(x) == CASE x.k = "fin" -> x.n > 0
                [] x.k = "inf" -> x.n > 0
                [] OTHER       -> FALSE
FLeZero(x) == CASE x.k = "fin" -> x.n <= 0
                [] x.k = "inf" -> x.n < 0
                [] OTHER       -> FALSE

FMul(a, b) ==
    CASE a.k = "nan" \/ b.k = "nan" -> NaN
      [] a.k = "fin" /\ b.k = "fin" -> Fin(a.n * b.n, a.d * b.d)
      [] OTHER ->   \* at least one infinity
           LET s == Sign(a.n) * Sign(b.n)
           IN  IF s = 0 THEN NaN ELSE IF s > 0 THEN PosInf ELSE NegInf

\* a / b for Python floats, b a non-zero finite value or an infinity
FDiv(a, b) ==
    CASE a.k = "nan" \/ b.k = "nan" -> NaN
      [] a.k = "fin" /\ b.k = "fin" ->
           IF b.n > 0 THEN Fin(a.n * b.d, a.d * b.n) ELSE Fin(-(a.n * b.d), a.d * (-b.n))
      [] a.k = "fin" /\ b.k = "inf" -> Fin(0, 1)
      [] a.k = "inf" /\ b.k = "fin" ->
           IF Sign(a.n) * Sign(b.n) > 0 THEN PosInf ELSE NegInf
      [] OTHER -> NaN

----------------------------------------------------------------------------
(* Text *)

DigitChars == <<"0", "1", "2", "3", "4", "5", "6", "7", "8", "9">>
IsDigit(c) == \E i \in 1..10 : DigitChars[i] = c
DigitVal(c) == (CHOOSE i \in 1..10 : DigitChars[i] = c) - 1
IsSpace(c) == c \in {" ", "\n", "\t", "\r"}

RECURSIVE DigitsToNat(_)
DigitsToNat(s) ==
    IF s = <<>> THEN 0
    ELSE 10 * DigitsToNat(SubSeq(s, 1, Len(s) - 1)) + DigitVal(s[Len(s)])

RECURSIVE NatToDigits(_)
NatToDigits(n) ==
    IF n < 10 THEN <<DigitChars[n + 1]>>
    ELSE Append(NatToDigits(n \div 10), DigitChars[(n % 10) + 1])

RECURSIVE Pow10(_)
Pow10(p) == IF p = 0 THEN 1 ELSE 10 * Pow10(p - 1)

RECURSIVE Strip(_)
Strip(s) ==
    IF s = <<>> THEN s
    ELSE IF IsSpace(s[1]) THEN Strip(Tail(s))
    ELSE IF IsSpace(s[Len(s)]) THEN Strip(SubSeq(s, 1, Len(s) - 1))
    ELSE s

UpperChar(c) == CASE c = "a" -> "A" [] c = "b" -> "B" [] c = "c" -> "C"
                  [] c = "f" -> "F" [] c = "i" -> "I" [] c = "m" -> "M"
                  [] c = "n" -> "N" [] c = "p" -> "P" [] c = "x" -> "X"
                  [] OTHER -> c
Upper(s) == [i \in 1..Len(s) |-> UpperChar(s[i])]

\* s.split('\n')
RECURSIVE SplitLines(_)
SplitLines(s) ==
    IF \A i \in 1..Len(s) : s[i] # "\n" THEN <<s>>
    ELSE LET i == CHOOSE j \in 1..Len(s) :
                      s[j] = "\n" /\ \A h \in 1..(j - 1) : s[h] # "\n"
         IN  <<SubSeq(s, 1, i - 1)>> \o SplitLines(SubSeq(s, i + 1, Len(s)))

\* The quotient and remainder of num * 10^p by den, by long division
RECURSIVE Scaled(_, _, _)
Scaled(num, den, p) ==
    IF p = 0 THEN <<num \div den, num % den>>
    ELSE LET prev == Scaled(num, den, p - 1)
         IN  <<prev[1] * 10 + (prev[2] * 10) \div den, (prev[2] * 10) % den>>

\* num * 10^p / den rounded to the nearest integer.  The program rounds the
\* binary double nearest to the quotient; when the quotient lies exactly half
\* way the double may lie on either side, so both neighbours are possible.
RoundNearest(num, den, p) ==
    LET qr == Scaled(num, den, p)
    IN  IF 2 * qr[2] > den THEN {qr[1] + 1}
        ELSE IF 2 * qr[2] < den THEN {qr[1]}
        ELSE {qr[1], qr[1] + 1}

RECURSIVE ZeroPad(_, _)
ZeroPad(s, width) == IF Len(s) >= width THEN s ELSE ZeroPad(<<"0">> \o s, width)

\* f"{x:.<places>f}": the set of texts it may produce (one text, except half
\* way between two)
FormatFixed(x, places) ==
    CASE x.k = "nan" -> {<<"n", "a", "n">>}
      [] x.k = "inf" -> {IF x.n < 0 THEN <<"-", "i", "n", "f">> ELSE <<"i", "n", "f">>}
      [] OTHER ->
           { (IF x.n < 0 THEN <<"-">> ELSE <<>>)
                 \o NatToDigits(r \div Pow10(places)) \o <<".">>
                 \o ZeroPad(NatToDigits(r % Pow10(places)), places)
             : r \in RoundNearest(Abs(x.n), x.d, places) }

----------------------------------------------------------------------------
(* Python's float(text), for the texts of this model: an optional sign, then *)
(* digits with at most one decimal point, or nan / inf; anything else is a   *)
(* ValueError.  Leading and trailing white space is ignored.                 *)

IsDecimal(s) ==
    /\ \A i \in 1..Len(s) : IsDigit(s[i]) \/ s[i] = "."
    /\ Cardinality({i \in 1..Len(s) : s[i] = "."}) <= 1
    /\ \E i \in 1..Len(s) : IsDigit(s[i])

DecimalValue(s) ==
    LET digits == SelectSeq(s, IsDigit)
        dot    == IF \E i \in 1..Len(s) : s[i] = "."
                  THEN CHOOSE i \in 1..Len(s) : s[i] = "." ELSE Len(s)
    IN  Fin(DigitsToNat(digits), Pow10(Len(s) - dot))

PyFloat(text) ==
    LET s    == Strip(text)
        neg  == s # <<>> /\ s[1] = "-"
        body == IF s # <<>> /\ s[1] \in {"-", "+"} THEN Tail(s) ELSE s
    IN  CASE Upper(body) = <<"N", "A", "N">> -> NaN
          [] Upper(body) = <<"I", "N", "F">> -> IF neg THEN NegInf ELSE PosInf
          [] IsDecimal(body) ->
               LET v == DecimalValue(body) IN IF neg THEN Fin(-v.n, v.d) ELSE v
          [] OTHER -> ValueError

----------------------------------------------------------------------------
(* parse_bpm_entry: the tempo read from the BPM entry, 120 when it is invalid *)

DefaultBpm == 120

parse_bpm_entry(entry_text) ==
    LET stripped == Upper(Strip(entry_text))
        digits   == SelectSeq(stripped, IsDigit)
        parsed   == IF digits = <<>> THEN ValueError ELSE Fin(DigitsToNat(digits), 1)
        invalid  == parsed.k = "ValueError" \/ FLeZero(parsed)
    IN  [value   |-> IF invalid THEN Fin(DefaultBpm, 1) ELSE parsed,
         invalid |-> invalid, text |-> stripped]

\* f"{bpm_value:.2f} BPM"
BpmEntryText(v) == {f \o <<" ", "B", "P", "M">> : f \in FormatFixed(v, 2)}

----------------------------------------------------------------------------
(* process_file: the beat count and the silence duration *)

DefaultBeats == 1

\* the beat count without the check for a positive value
ParseBeatsUnchecked(entry_text) ==
    LET parsed  == PyFloat(entry_text)
        invalid == parsed.k = "ValueError"
    IN  [value   |-> IF invalid THEN Fin(DefaultBeats, 1) ELSE parsed,
         invalid |-> invalid]

ParseBeats(entry_text) ==
    LET parsed  == PyFloat(entry_text)
        invalid == parsed.k = "ValueError" \/ FLeZero(parsed)
    IN  [value   |-> IF invalid THEN Fin(DefaultBeats, 1) ELSE parsed,
         invalid |-> invalid]

SecondsPerMinute == 60

SilenceDuration(bpm, beats) == FMul(FDiv(Fin(SecondsPerMinute, 1), bpm), beats)

\* f'{silence_duration:.4f}'
DurationText(bpm, beats) == FormatFixed(SilenceDuration(bpm, beats), 4)

----------------------------------------------------------------------------
(* fix_wav_hex on the bytes of an existing file *)

FormatTagOffset     == 20
WaveFormatExtensible == 65534

Min(a, b) == IF a < b THEN a ELSE b
Max(a, b) == IF a > b THEN a ELSE b

\* f.read(n) at position pos: short at end of file
FileRead(f, pos, n) == SubSeq(f, pos + 1, Min(pos + n, Len(f)))

\* int.from_bytes(b, byteorder='little', signed=False)
RECURSIVE IntFromBytesLittle(_)
IntFromBytesLittle(b) ==
    IF b = <<>> THEN 0 ELSE b[1] + 256 * IntFromBytesLittle(Tail(b))

\* f.write(data) at position pos: overwrites, and extends the file if needed
FileWrite(f, pos, data) ==
    [i \in 1..Max(Len(f), pos + Len(data)) |->
        IF i > pos /\ i <= pos + Len(data) THEN data[i - pos]
        ELSE IF i <= Len(f) THEN f[i] ELSE 0]

\* fix_wav_hex without the seek back over the two bytes just read
fix_wav_hex_no_seek(f) ==
    LET format_id == FileRead(f, FormatTagOffset, 2)
        after_read == FormatTagOffset + Len(format_id)
        bint      == IntFromBytesLittle(format_id)
    IN  IF bint = WaveFormatExtensible
        THEN [bytes |-> FileWrite(f, after_read, <<1, 0>>), fixed |-> TRUE]
        ELSE [bytes |-> f, fixed |-> FALSE]

fix_wav_hex(f) ==
    LET format_id == FileRead(f, FormatTagOffset, 2)
        after_read == FormatTagOffset + Len(format_id)
        bint      == IntFromBytesLittle(format_id)
    IN  IF bint = WaveFormatExtensible
        THEN [bytes |-> FileWrite(f, after_read - 2, <<1, 0>>), fixed |-> TRUE]
        ELSE [bytes |-> f, fixed |-> FALSE]

----------------------------------------------------------------------------
(* numpy arithmetic on samples *)

Raise == [k |-> "raise", n |-> 0, d |-> 1]        \* an exception was raised

IsFinite(x) == x.k = "fin"
FZero == Fin(0, 1)
FAbs(x) == IF x.k = "fin" THEN Fin(Abs(x.n), x.d)
           ELSE IF x.k = "inf" THEN PosInf ELSE x
FLess(a, b) == a.n * b.d < b.n * a.d              \* finite a < finite b

FAdd(a, b) ==
    CASE a.k = "nan" \/ b.k = "nan" -> NaN
      [] a.k = "fin" /\ b.k = "fin" -> Fin(a.n * b.d + b.n * a.d, a.d * b.d)
      [] a.k = "inf" /\ b.k = "inf" -> IF a.n = b.n THEN a ELSE NaN
      [] a.k = "inf" -> a
      [] OTHER -> b

\* a / b as numpy divides arrays: x/0 is nan or an infinity, never an exception
NpDivide(a, b) ==
    IF b.k = "fin" /\ b.n = 0
    THEN CASE a.k = "nan" -> NaN
           [] a.n = 0     -> NaN
           [] a.n > 0     -> PosInf
           [] OTHER       -> NegInf
    ELSE FDiv(a, b)

RECURSIVE IntPow(_, _)
IntPow(b, e) == IF e = 0 THEN 1 ELSE b * IntPow(b, e - 1)

\* x ** e for x >= 0 (or +inf) and a negative integer e
NpPowerNeg(x, e) ==
    CASE x.k = "nan" -> NaN
      [] x.k = "inf" -> FZero
      [] x.n = 0     -> PosInf
      [] OTHER       -> Fin(IntPow(x.d, -e), IntPow(x.n, -e))

\* np.minimum(1.0, g), g finite or +inf
NpMinimumOne(g) ==
    CASE g.k = "nan" -> NaN
      [] g.k = "inf" -> IF g.n > 0 THEN Fin(1, 1) ELSE g
      [] OTHER       -> IF FLess(Fin(1, 1), g) THEN Fin(1, 1) ELSE g

\* np.max of a non-empty sequence of finite values
RECURSIVE NpMax(_)
NpMax(y) ==
    IF Len(y) = 1 THEN y[1]
    ELSE LET m == NpMax(Tail(y)) IN IF FLess(m, y[1]) THEN y[1] ELSE m

----------------------------------------------------------------------------
(* butter_lowpass / lowpass_filter / dynamic_range_compression / prepare_audio *)

Cutoff         == 150
ThresholdDenom == 2      \* threshold = 0.5 = 1/ThresholdDenom
Ratio          == 4

\* butter_lowpass: nyq = 0.5 * fs; cutoff / nyq raises ZeroDivisionError when
\* fs = 0 and scipy's butter raises ValueError unless 0 < Wn < 1
butter_lowpass(cutoff, fs) ==
    IF fs = 0 THEN "raise"
    ELSE IF 2 * cutoff >= fs THEN "raise"
    ELSE "ok"

\* lowpass_filter: scipy's lfilter keeps the length and starts from a zero
\* state, so silence stays silence; lfilter_out is what it returned otherwise
lowpass_filter(data, cutoff, fs, lfilter_out) ==
    IF butter_lowpass(cutoff, fs) = "raise" THEN [k |-> "raise", y |-> <<>>]
    ELSE [k |-> "ok", y |-> lfilter_out]

dynamic_range_compression(y) ==
    [i \in 1..Len(y) |->
        LET a    == FAbs(y[i])
            pw   == NpPowerNeg(FMul(a, Fin(ThresholdDenom, 1)), 1 - Ratio)
            gain == NpMinimumOne(IF FGtZero(a) THEN pw ELSE FZero)
        IN  FMul(y[i], gain)]

\* np.nan_to_num(y, nan=0.0, posinf=0.0, neginf=0.0)
nan_to_num(y) == [i \in 1..Len(y) |-> IF IsFinite(y[i]) THEN y[i] ELSE FZero]

\* np.mean(y, axis=1)
MeanRows(rows) ==
    [i \in 1..Len(rows) |->
        NpDivide(FAdd(rows[i][1], rows[i][2]), Fin(2, 1))]

prepare_audio(buf, lfilter_out) ==
    LET mono     == IF buf.ndim > 1 THEN MeanRows(buf.y) ELSE buf.y
        filtered == lowpass_filter(mono, Cutoff, buf.sr, lfilter_out)
        cleaned  == nan_to_num(dynamic_range_compression(filtered.y))
        kept     == IF \A i \in 1..Len(cleaned) : IsFinite(cleaned[i])
                    THEN cleaned ELSE SelectSeq(cleaned, IsFinite)
    IN  IF filtered.k = "raise" THEN [k |-> "raise", y |-> <<>>]
        ELSE IF kept = <<>> THEN [k |-> "raise", y |-> <<>>]   \* np.max of nothing
        ELSE LET peak == NpMax([i \in 1..Len(kept) |-> FAbs(kept[i])])
             IN  [k |-> "ok",
                  y |-> [i \in 1..Len(kept) |-> NpDivide(kept[i], peak)]]

----------------------------------------------------------------------------
(* calculate_bpm_robust: load is what librosa.load did, onset what           *)
(* onset_strength did, track what beat_track returned                        *)

TempoCheck(tempo) == tempo.k # "none" /\ FGtZero(tempo)

\* calculate_bpm_robust returning whatever beat_track gave, unchecked
calculate_bpm_robust_unchecked(load, lfilter_out, onset, track) ==
    LET prepared == prepare_audio(load, lfilter_out)
        body == IF load.k = "raise" THEN Raise
                ELSE IF prepared.k = "raise" THEN Raise
                ELSE IF onset = "raise" THEN Raise
                ELSE IF track.k = "raise" THEN Raise
                ELSE track
    IN  IF body.k = "raise"
        THEN [k |-> "return", value |-> Fin(DefaultBpm, 1)]
        ELSE [k |-> "return", value |-> body]

calculate_bpm_robust(load, lfilter_out, onset, track) ==
    LET prepared == prepare_audio(load, lfilter_out)
        body == IF load.k = "raise" THEN Raise
                ELSE IF prepared.k = "raise" THEN Raise
                ELSE IF onset = "raise" THEN Raise
                ELSE IF track.k = "raise" THEN Raise
                ELSE IF TempoCheck(track) THEN track
                ELSE Fin(DefaultBpm, 1)
    IN  IF body.k = "raise"
        THEN [k |-> "return", value |-> Fin(DefaultBpm, 1)]   \* except Exception
        ELSE [k |-> "return", value |-> body]

----------------------------------------------------------------------------
(* Inputs of the file-processing requests *)

TextsUpTo(alphabet, n) == UNION {[1..k -> alphabet] : k \in 0..n}

\* BPM entry texts: the default "120BPM", plain tempos, and invalid texts
BpmTexts ==
    { <<"1", "2", "0", "B", "P", "M">>, <<"1", "2", "8">>, <<"9", "0">>,
      <<"1", "2", ".", "5">>, <<"-", "5">>, <<"0">>, <<"b", "p", "m">>, <<>> }

\* beats entry texts: the default "1", valid counts, and invalid texts
BeatsTexts ==
    { <<"1">>, <<"2">>, <<"0", ".", "5">>, <<"0", ".", "0", "0", "1">>,
      <<"-", "3">>, <<"0">>, <<"x">>, <<"n", "a", "n">> }

BeatsAlphabet == {"0", "3", ".", "-", " ", "x"}
GeneratedBeatsTexts ==
    TextsUpTo(BeatsAlphabet, MaxBeatsLen) \cup {<<"n", "a", "n">>, <<"i", "n", "f">>}

\* what ffprobe may print: both values, nothing, one value, values that are
\* no positive integers
ProbeOutputs ==
    { <<"4", "4", "1", "0", "0", "\n", "2", "\n">>,
      <<>>,
      <<"4", "4", "1", "0", "0", "\n">>,
      <<"N", "/", "A", "\n", "2", "\n">>,
      <<"0", "\n", "0", "\n">> }

\* a 24-byte head of a RIFF/WAVE file whose format tag is tag
WavFile(tag) ==
    <<82, 73, 70, 70, 36, 0, 0, 0, 87, 65, 86, 69, 102, 109, 116, 32, 40, 0, 0, 0,
      tag % 256, tag \div 256, 2, 0>>
PartialFile == <<82, 73, 70, 70, 36, 0, 0, 0, 87, 65, 86, 69>>

Absent == [exists |-> FALSE, bytes |-> <<>>]
OnDisk(bytes) == [exists |-> TRUE, bytes |-> bytes]

\* what may lie at the output path before the request: nothing, or the
\* output of an earlier run
DiskFiles == {Absent, OnDisk(WavFile(WaveFormatExtensible)), OnDisk(WavFile(1))}

\* librosa.load and beat_track results offered to a request in auto mode
Silence1 == [k |-> "ok", ndim |-> 1, y |-> <<FZero>>, sr |-> 44100]
Tone1    == [k |-> "ok", ndim |-> 1, y |-> <<Fin(1, 4)>>, sr |-> 44100]
LoadRaised == [k |-> "raise", ndim |-> 1, y |-> <<>>, sr |-> 0]
PipelineLoads  == {LoadRaised, Silence1, Tone1}
PipelineTracks == {Fin(117454, 1000), Fin(90, 1), FZero}

NoCommand == [called |-> FALSE, t |-> <<>>, r |-> <<>>, cl |-> <<>>]
NoPath    == [set |-> FALSE, renamed |-> FALSE, bpm |-> <<>>]

InitUnusedHex ==
    /\ hx_before = <<>> /\ hx_after = <<>> /\ hx_done = FALSE
InitUnusedAudio ==
    /\ au_load = LoadRaised /\ au_lfilter = <<>> /\ au_onset = "ok"
    /\ au_track = NoValue /\ au_prepared = [k |-> "none", y |-> <<>>]
    /\ au_tempo = [k |-> "none", value |-> NoValue]

InitRequests(clicks, bpmTexts, beatsTexts, options, flags, files) ==
    /\ bpm_option \in options
    /\ bpm_entry \in bpmTexts
    /\ beats_entry \in beatsTexts
    /\ rename_file_var \in flags
    /\ fix_wav_hex_var \in flags
    /\ pending = clicks
    /\ pc = [t \in Threads |-> "idle"]
    /\ bpm_text = [t \in Threads |-> <<>>]
    /\ bpm_value = [t \in Threads |-> NoValue]
    /\ output_file_path = [t \in Threads |-> NoPath]
    /\ sample_rate = [t \in Threads |-> <<>>]
    /\ channels = [t \in Threads |-> <<>>]
    /\ pf_bpm_text = [t \in Threads |-> <<>>]
    /\ pf_bpm_value = [t \in Threads |-> NoValue]
    /\ number_of_beats = [t \in Threads |-> NoValue]
    /\ silence_duration = [t \in Threads |-> NoValue]
    /\ command = [t \in Threads |-> NoCommand]
    /\ transcoded = [t \in Threads |-> FALSE]
    /\ hex_applied = [t \in Threads |-> FALSE]
    /\ log = [t \in Threads |-> {}]
    /\ disk \in {d \in [Threads -> files] : \A t \in Threads \ clicks : d[t] = Absent}

----------------------------------------------------------------------------
(* The steps of a file-processing request.  A step is the code between two  *)
(* accesses to what the worker threads share (the form and the disk) or two *)
(* runs of an external program.                                             *)

Say(t, msgs) == log' = [log EXCEPT ![t] = @ \cup msgs]

\* open_file_dialog: the user picks a file (or cancels the dialog)
open_file_dialog(t) ==
    /\ t \in pending
    /\ pending' = pending \ {t}
    /\ \E chosen \in BOOLEAN :
         IF chosen
         THEN /\ pc' = [pc EXCEPT ![t] = "resolve"]
              /\ Say(t, {"Selected File"})
         ELSE UNCHANGED <<pc, log>>
    /\ UNCHANGED <<formVars, bpm_entry, bpm_text, bpm_value, output_file_path,
                   sample_rate, channels, pf_bpm_text, pf_bpm_value, number_of_beats,
                   silence_duration, command, transcoded, hex_applied, disk,
                   hxVars, auVars>>

\* process_file_thread, lines 40-44: resolve the tempo of the request
process_file_thread_bpm(t) ==
    /\ pc[t] = "resolve"
    /\ IF bpm_option = "auto"
       THEN \E load \in PipelineLoads, track \in PipelineTracks :
              LET r == calculate_bpm_robust(load, load.y, "ok", track)
              IN  /\ bpm_value' = [bpm_value EXCEPT ![t] = r.value]
                  /\ UNCHANGED bpm_text
                  /\ Say(t, IF load.k = "ok" /\ TempoCheck(track)
                            THEN {"Detected tempo"} ELSE {"BPM estimation failed"})
       ELSE LET r == parse_bpm_entry(bpm_entry)
            IN  /\ bpm_value' = [bpm_value EXCEPT ![t] = r.value]
                /\ bpm_text' = [bpm_text EXCEPT ![t] = r.text]
                /\ Say(t, IF r.invalid THEN {"Invalid BPM value"} ELSE {})
    /\ pc' = [pc EXCEPT ![t] = "entry"]
    /\ UNCHANGED <<formVars, bpm_entry, pending, output_file_path, sample_rate,
                   channels, pf_bpm_text, pf_bpm_value, number_of_beats,
                   silence_duration, command, transcoded, hex_applied, disk,
                   hxVars, auVars>>

\* process_file_thread, lines 46-52: write the tempo back into the BPM entry
process_file_thread_entry(t) ==
    /\ pc[t] = "entry"
    /\ IF bpm_value[t].k # "none" /\ FGtZero(bpm_value[t])
       THEN /\ bpm_entry' \in BpmEntryText(bpm_value[t])
            /\ UNCHANGED log
       ELSE /\ bpm_entry' = <<"1", "2", "0", " ", "B", "P", "M">>
            /\ Say(t, {"Failed to detect BPM"})
    /\ pc' = [pc EXCEPT ![t] = "name"]
    /\ UNCHANGED <<formVars, pending, bpm_text, bpm_value, output_file_path,
                   sample_rate, channels, pf_bpm_text, pf_bpm_value, number_of_beats,
                   silence_duration, command, transcoded, hex_applied, disk,
                   hxVars, auVars>>

\* generate_output_filename: the name carries the text of the BPM entry
generate_output_filename(t) ==
    /\ pc[t] = "name"
    /\ output_file_path' = [output_file_path EXCEPT ![t] =
           IF rename_file_var
           THEN [set |-> TRUE, renamed |-> TRUE, bpm |-> bpm_entry]
           ELSE [set |-> TRUE, renamed |-> FALSE, bpm |-> <<>>]]
    /\ Say(t, IF disk[t].exists THEN {"Output file already exists"} ELSE {})
    /\ pc' = [pc EXCEPT ![t] = "probe"]
    /\ UNCHANGED <<formVars, bpm_entry, pending, bpm_text, bpm_value, sample_rate,
                   channels, pf_bpm_text, pf_bpm_value, number_of_beats,
                   silence_duration, command, transcoded, hex_applied, disk,
                   hxVars, auVars>>

\* process_file, lines 163-172: run ffprobe and take its first two lines
process_file_probe(t) ==
    /\ pc[t] = "probe"
    /\ \E stdout \in ProbeOutputs, oserror \in BOOLEAN :
         LET lines == SplitLines(stdout)
         IN  IF oserror \/ Len(lines) < 2
             THEN \* subprocess.run failed, or too few values to unpack
                  /\ Say(t, {"Error", "OPERATION FAILED"})
                  /\ pc' = [pc EXCEPT ![t] = "hex"]
                  /\ UNCHANGED <<sample_rate, channels>>
             ELSE /\ sample_rate' = [sample_rate EXCEPT ![t] = Strip(lines[1])]
                  /\ channels' = [channels EXCEPT ![t] = Strip(lines[2])]
                  /\ pc' = [pc EXCEPT ![t] = "plan"]
                  /\ UNCHANGED log
    /\ UNCHANGED <<formVars, bpm_entry, pending, bpm_text, bpm_value,
                   output_file_path, pf_bpm_text, pf_bpm_value, number_of_beats,
                   silence_duration, command, transcoded, hex_applied, disk,
                   hxVars, auVars>>

\* process_file, lines 174-197: tempo, beat count, silence duration
process_file_plan(t) ==
    /\ pc[t] = "plan"
    /\ LET bpm     == parse_bpm_entry(bpm_entry)
           beats   == ParseBeats(beats_entry)
           missing == sample_rate[t] = <<>> \/ channels[t] = <<>>
       IN  /\ pf_bpm_text' = [pf_bpm_text EXCEPT ![t] = bpm.text]
           /\ pf_bpm_value' = [pf_bpm_value EXCEPT ![t] = bpm.value]
           /\ number_of_beats' = [number_of_beats EXCEPT ![t] = beats.value]
           /\ silence_duration' = [silence_duration EXCEPT ![t] =
                                      SilenceDuration(bpm.value, beats.value)]
           /\ Say(t, (IF bpm.invalid THEN {"Invalid BPM value"} ELSE {})
                       \cup (IF beats.invalid THEN {"Invalid number of beats"} ELSE {})
                       \cup {"Silence added"}
                       \cup (IF missing THEN {"Could not determine sample rate or channels"}
                             ELSE {}))
           /\ pc' = [pc EXCEPT ![t] = IF missing THEN "hex" ELSE "ffmpeg"]
    /\ UNCHANGED <<formVars, bpm_entry, pending, bpm_text, bpm_value,
                   output_file_path, sample_rate, channels, command, transcoded,
                   hex_applied, disk, hxVars, auVars>>

\* process_file, lines 199-227: run ffmpeg; it exits 0 and leaves a WAV file,
\* or fails (CalledProcessError, OSError) and leaves the path as it was or
\* with a partial file
process_file_ffmpeg(t) ==
    /\ pc[t] = "ffmpeg"
    /\ \E duration \in FormatFixed(silence_duration[t], 4) :
         command' = [command EXCEPT ![t] =
             [called |-> TRUE, t |-> duration,
              r |-> sample_rate[t], cl |-> channels[t]]]
    /\ \/ \E tag \in {1, WaveFormatExtensible} :
            /\ disk' = [disk EXCEPT ![t] = OnDisk(WavFile(tag))]
            /\ transcoded' = [transcoded EXCEPT ![t] = TRUE]
            /\ Say(t, {"Successfully added silence"})
       \/ \E left \in {disk[t], OnDisk(PartialFile)} :
            /\ disk' = [disk EXCEPT ![t] = left]
            /\ Say(t, {"Error", "OPERATION FAILED"})
            /\ UNCHANGED transcoded
    /\ pc' = [pc EXCEPT ![t] = "hex"]
    /\ UNCHANGED <<formVars, bpm_entry, pending, bpm_text, bpm_value,
                   output_file_path, sample_rate, channels, pf_bpm_text, pf_bpm_value,
                   number_of_beats, silence_duration, hex_applied, hxVars, auVars>>

\* process_file_thread, lines 56-59: patch the header of the output file
process_file_thread_hex(t) ==
    /\ pc[t] = "hex"
    /\ IF ~fix_wav_hex_var
       THEN /\ pc' = [pc EXCEPT ![t] = "done"]
            /\ UNCHANGED <<hex_applied, disk, log>>
       ELSE /\ hex_applied' = [hex_applied EXCEPT ![t] = TRUE]
            /\ IF ~disk[t].exists
               THEN \* open() raises FileNotFoundError, which ends the thread
                    /\ pc' = [pc EXCEPT ![t] = "raised"]
                    /\ UNCHANGED <<disk, log>>
               ELSE LET r == fix_wav_hex(disk[t].bytes)
                    IN  /\ disk' = [disk EXCEPT ![t] = OnDisk(r.bytes)]
                        /\ Say(t, IF r.fixed THEN {"Fixing Hex"} ELSE {})
                        /\ pc' = [pc EXCEPT ![t] = "done"]
    /\ UNCHANGED <<formVars, bpm_entry, pending, bpm_text, bpm_value,
                   output_file_path, sample_rate, channels, pf_bpm_text, pf_bpm_value,
                   number_of_beats, silence_duration, command, transcoded,
                   hxVars, auVars>>

Next ==
    \E t \in Threads :
        \/ open_file_dialog(t)
        \/ process_file_thread_bpm(t)
        \/ process_file_thread_entry(t)
        \/ generate_output_filename(t)
        \/ process_file_probe(t)
        \/ process_file_plan(t)
        \/ process_file_ffmpeg(t)
        \/ process_file_thread_hex(t)

\* one request at a time, every form setting
Init ==
    /\ InitRequests({1}, BpmTexts, BeatsTexts, {"manual", "auto"}, BOOLEAN, DiskFiles)
    /\ InitUnusedHex /\ InitUnusedAudio
Spec == Init /\ [][Next]_vars

\* one request, every short beats text
InitBeats ==
    /\ InitRequests({1}, {<<"1", "2", "0", "B", "P", "M">>, <<"9", "0">>},
                    GeneratedBeatsTexts, {"manual"}, {TRUE}, {Absent})
    /\ InitUnusedHex /\ InitUnusedAudio
SpecBeats == InitBeats /\ [][Next]_vars

\* requests in flight together
InitConc ==
    /\ InitRequests(Threads, {<<"1", "2", "8">>}, {<<"2">>}, {"manual", "auto"},
                    {TRUE}, {Absent})
    /\ InitUnusedHex /\ InitUnusedAudio
SpecConc == InitConc /\ [][Next]_vars

----------------------------------------------------------------------------
(* fix_wav_hex applied to an arbitrary file *)

ByteChoices == {0, 1, 254, 255}

\* files of every length up to MaxFileLen: a fixed head, then free bytes from
\* the byte before the format tag onwards
HexFiles ==
    UNION { { [i \in 1..Min(len, FormatTagOffset - 1) |-> 82] \o tail :
                tail \in [1..Max(0, len - (FormatTagOffset - 1)) -> ByteChoices] }
            : len \in 0..MaxFileLen }

InitNoRequests ==
    InitRequests({}, {<<>>}, {<<>>}, {"manual"}, {FALSE}, {Absent})

run_fix_wav_hex ==
    /\ ~hx_done
    /\ hx_after' = fix_wav_hex(hx_before).bytes
    /\ hx_done' = TRUE
    /\ UNCHANGED <<hx_before, formVars, reqVars, auVars>>

InitHex ==
    /\ InitNoRequests /\ InitUnusedAudio
    /\ hx_before \in HexFiles
    /\ hx_after = hx_before
    /\ hx_done = FALSE
NextHex == run_fix_wav_hex
SpecHex == InitHex /\ [][NextHex]_vars

----------------------------------------------------------------------------
(* prepare_audio and calculate_bpm_robust applied to arbitrary inputs *)

RawSamples      == {FZero, Fin(1, 4), NaN}
FilteredSamples == {FZero, Fin(1, 4), Fin(-3, 4), PosInf}
StereoFrames    == {<<FZero, FZero>>, <<Fin(1, 4), Fin(-3, 4)>>}
SampleRates     == {44100, 200}
TrackResults    == {NoValue, NaN, FZero, Fin(-1, 1), Fin(117454, 1000), Raise}

MonoLoads ==
    {LoadRaised}
      \cup { [k |-> "ok", ndim |-> 1, y |-> y, sr |-> sr] :
                y \in TextsUpTo(RawSamples, MaxBufLen), sr \in SampleRates }
StereoLoads ==
    { [k |-> "ok", ndim |-> 2, y |-> y, sr |-> sr] :
         y \in TextsUpTo(StereoFrames, MaxBufLen), sr \in SampleRates }

IsSilent(y) == \A i \in 1..Len(y) : y[i].k = "fin" /\ y[i].n = 0

\* what scipy's lfilter may return for the buffer of a load
LfilterResults(load) ==
    LET mono == IF load.ndim > 1 THEN MeanRows(load.y) ELSE load.y
    IN  IF IsSilent(mono) THEN {mono} ELSE [1..Len(mono) -> FilteredSamples]

NotRun == [k |-> "none", y |-> <<>>]

run_prepare_audio ==
    /\ au_load.k = "ok"
    /\ au_prepared.k = "none"
    /\ au_prepared' = prepare_audio(au_load, au_lfilter)
    /\ UNCHANGED <<au_load, au_lfilter, au_onset, au_track, au_tempo,
                   formVars, reqVars, hxVars>>

run_calculate_bpm_robust ==
    /\ au_tempo.k = "none"
    /\ au_tempo' = calculate_bpm_robust(au_load, au_lfilter, au_onset, au_track)
    /\ UNCHANGED <<au_load, au_lfilter, au_onset, au_track, au_prepared,
                   formVars, reqVars, hxVars>>

InitAudio ==
    /\ InitNoRequests /\ InitUnusedHex
    /\ (au_load \in MonoLoads \/ au_load \in StereoLoads)
    /\ au_lfilter \in LfilterResults(au_load)
    /\ au_onset \in {"ok", "raise"}
    /\ au_track \in TrackResults
    /\ au_prepared = NotRun
    /\ au_tempo = [k |-> "none", value |-> NoValue]
NextAudio == run_prepare_audio \/ run_calculate_bpm_robust
SpecAudio == InitAudio /\ [][NextAudio]_vars

----------------------------------------------------------------------------
(* Properties *)

RECURSIVE Gcd(_, _)
Gcd(a, b) == IF b = 0 THEN a ELSE Gcd(b, a % b)
Lowest(x) == LET g == Gcd(Abs(x.n), x.d) IN [k |-> x.k, n |-> x.n \div g, d |-> x.d \div g]
\* the same float: equal kinds and, in lowest terms, equal fractions
FEq(a, b) == Lowest(a) = Lowest(b)
Planned(t) == pf_bpm_value[t].k # "none"

\* a text that denotes a positive integer
IsPositiveInteger(s) ==
    /\ s # <<>>
    /\ \A i \in 1..Len(s) : IsDigit(s[i])
    /\ \E i \in 1..Len(s) : s[i] # "0"

\* a duration text d.dddd that denotes a number above zero
IsPositiveSeconds(s) ==
    /\ \A i \in 1..Len(s) : IsDigit(s[i]) \/ s[i] = "."
    /\ \E i \in 1..Len(s) : IsDigit(s[i]) /\ s[i] # "0"

\* C1: whenever ffmpeg is invoked for a request whose beats text is a valid
\* count above zero, its -t argument is (60 / bpm) * beats with 4 decimal
\* places, bpm being the tempo process_file_thread resolved for that request.
C1_DurationFromResolvedTempo ==
    \A t \in Threads :
        LET beats == PyFloat(beats_entry)
        IN  command[t].called /\ beats.k = "fin" /\ beats.n > 0
              => command[t].t \in DurationText(bpm_value[t], beats)

\* C2: fix_wav_hex changes a file only when the little-endian 16-bit value at
\* offsets 20-21 is 65534, and then only those two bytes, which become 01 00;
\* any other file, shorter than 22 bytes included, keeps its bytes and length.
C2_OnlyFormatTagPatched ==
    hx_done =>
        IF /\ Len(hx_before) >= FormatTagOffset + 2
           /\ hx_before[FormatTagOffset + 1] + 256 * hx_before[FormatTagOffset + 2]
                 = WaveFormatExtensible
        THEN /\ Len(hx_after) = Len(hx_before)
             /\ hx_after[FormatTagOffset + 1] = 1
             /\ hx_after[FormatTagOffset + 2] = 0
             /\ \A i \in 1..Len(hx_before) :
                    i \notin {FormatTagOffset + 1, FormatTagOffset + 2}
                       => hx_after[i] = hx_before[i]
        ELSE hx_after = hx_before

\* a file longer than 22 bytes that fix_wav_hex patched
C2_Witness ==
    /\ hx_done
    /\ hx_after # hx_before
    /\ Len(hx_before) > FormatTagOffset + 2

\* C3: a manual BPM text without digits, or whose value is <= 0, makes the
\* request compute its silence duration with a tempo of 120 BPM.
C3_InvalidManualBpmUses120 ==
    \A t \in Threads :
        LET typed == PyFloat(bpm_text[t])
        IN  /\ bpm_option = "manual"
            /\ Planned(t)
            /\ (SelectSeq(bpm_text[t], IsDigit) = <<>> \/ FLeZero(typed))
            => FEq(pf_bpm_value[t], Fin(DefaultBpm, 1))

\* C4: in process_file a beats text that is no number, or a number <= 0, is
\* replaced by 1 beat, the replacement is logged and the silence lasts
\* (60 / bpm) * 1 seconds; a text that is a number > 0 is used as it is.
C4_BeatsDefault ==
    \A t \in Threads :
        Planned(t) =>
            LET beats == PyFloat(beats_entry)
                bpm   == pf_bpm_value[t]
            IN  IF beats.k = "ValueError" \/ FLeZero(beats)
                THEN /\ number_of_beats[t] = Fin(1, 1)
                     /\ "Invalid number of beats" \in log[t]
                     /\ FEq(silence_duration[t], Fin(SecondsPerMinute * bpm.d, bpm.n))
                ELSE FGtZero(beats) =>
                     /\ number_of_beats[t] = beats
                     /\ "Invalid number of beats" \notin log[t]
                     /\ beats.k = "fin" =>
                           FEq(silence_duration[t],
                               Fin(SecondsPerMinute * bpm.d * beats.n, bpm.n * beats.d))

\* the beats text "-3" was replaced by 1 beat and ffmpeg was invoked
C4_Witness ==
    \E t \in Threads :
        /\ beats_entry = <<"-", "3">>
        /\ command[t].called
        /\ number_of_beats[t] = Fin(1, 1)
        /\ "Invalid number of beats" \in log[t]

\* C5: calculate_bpm_robust always returns: 120 when loading, conditioning or
\* estimating failed or the estimator's tempo is absent or not above zero,
\* and the estimator's tempo, which is above zero, otherwise.
C5_EstimateNeverRaises ==
    au_tempo.k # "none" =>
        /\ au_tempo.k = "return"
        /\ LET failed == \/ au_load.k = "raise"
                         \/ prepare_audio(au_load, au_lfilter).k = "raise"
                         \/ au_onset = "raise"
                         \/ au_track.k = "raise"
               nothing == au_track.k \in {"none", "nan"} \/ FLeZero(au_track)
           IN  IF failed \/ nothing
               THEN au_tempo.value = Fin(DefaultBpm, 1)
               ELSE au_tempo.value = au_track /\ FGtZero(au_tempo.value)

\* conditioning failed inside calculate_bpm_robust, which returned 120
C5_Witness ==
    /\ au_tempo.k = "return"
    /\ au_load.k = "ok"
    /\ prepare_audio(au_load, au_lfilter).k = "raise"
    /\ au_tempo.value = Fin(DefaultBpm, 1)

\* C6: ffmpeg is invoked only with a probed sample rate and channel count
\* that are both positive integers.
C6_NoTranscodeOnBadProbe ==
    \A t \in Threads :
        command[t].called =>
            IsPositiveInteger(sample_rate[t]) /\ IsPositiveInteger(channels[t])

\* C7: every -t argument handed to ffmpeg denotes a number of seconds above
\* zero.
C7_DurationPositive ==
    \A t \in Threads : command[t].called => IsPositiveSeconds(command[t].t)

\* C8: for a buffer of at least one sample, at a sample rate the low-pass
\* filter accepts, prepare_audio returns, without raising, a buffer whose
\* samples are all finite and within [-1, 1] (an all-zero buffer included).
C8_PreparedFiniteBounded ==
    /\ au_prepared.k # "none"
    /\ au_load.y # <<>>
    /\ butter_lowpass(Cutoff, au_load.sr) = "ok"
    =>  /\ au_prepared.k = "ok"
        /\ \A i \in 1..Len(au_prepared.y) :
              /\ IsFinite(au_prepared.y[i])
              /\ ~FLess(Fin(1, 1), FAbs(au_prepared.y[i]))

\* C9: fix_wav_hex is called on the output path only after ffmpeg succeeded
\* in the same request.
C9_HexOnlyAfterTranscode ==
    \A t \in Threads : hex_applied[t] => transcoded[t]

\* C10: the BPM text a request puts in its file name, and the one it parses
\* for its silence duration, is the text of the tempo resolved for that same
\* request, never text written by another request.
C10_OwnTempoUsed ==
    \A t \in Threads :
        /\ output_file_path[t].set /\ output_file_path[t].renamed
              => output_file_path[t].bpm \in BpmEntryText(bpm_value[t])
        /\ Planned(t) => pf_bpm_text[t] \in BpmEntryText(bpm_value[t])

====
